---- MODULE Spec2Model ----
(***************************************************************************)
(* Model of the BHITL administrative backend: the request handlers of      *)
(* app/api/routes/users.py and app/api/routes/principles.py over the       *)
(* User, Principle and UserCommentRevision tables.                         *)
(*                                                                         *)
(* Every handler is one action: it reads the store, decides the HTTP       *)
(* status, writes the store when it commits, and leaves its response in    *)
(* resp.  SpecRace splits the two PATCH /users handlers at their commit,   *)
(* which is where two requests can interleave.                             *)
(***************************************************************************)
EXTENDS Integers, FiniteSets, Sequences, Bags, TLC

\* ---------------------------------------------------------------- bounds
MaxUsers == 3
MaxEmails == 4
MaxRevisions == 2
MaxRequests == 2

UserIds == 1..MaxUsers
\* a path parameter is any uuid: MaxUsers + 1 is the id of no user, ever
UserIdSpace == 1..(MaxUsers + 1)
Emails == 1..MaxEmails
Passwords == {"pw1", "pw2"}
Salts == {"s1", "s2"}
PrincipleIds == {"P1", "P2"}
PrincipleIdSpace == PrincipleIds \cup {"P9"}
CommentIds == {"c1", "c2"}
\* a request field that the body does not carry / that it carries as null
Unset == "<unset>"
Null == "<null>"
NoBody == "<none>"

VARIABLES users, principles, revisions, pending, resp

vars == <<users, principles, revisions, pending, resp>>

\* ----------------------------------------------------------- the store
\* users: id -> row, for the ids that have a row
UserRow(e, h, s) == [email |-> e, hashed_password |-> h, is_superuser |-> s]

\* app.core.security: a salted hash; verification recomputes it from the plain text
get_password_hash(plain, salt) == <<"hash", salt, plain>>

verify_password(plain, hashed) == hashed = get_password_hash(plain, hashed[2])

\* crud.get_user_by_email: select(User).where(User.email == email).first()
get_user_by_email(email) == {u \in DOMAIN users : users[u].email = email}

\* the unique index on User.email: a commit that would give two rows one email fails
UniqueViolation_Never(id, row) == FALSE

UniqueViolation(id, row) == \E o \in DOMAIN users \ {id} : users[o].email = row.email

\* get_current_active_superuser: the dependency of the superuser-only routes
get_current_active_superuser(c) == users[c].is_superuser

\* what the client gets back, with the request it answers
Respond(op, c, t, req, st, b) ==
    [op |-> op, caller |-> c, target |-> t, request |-> req, status |-> st, body |-> b]

\* no response is on its way to a client
NoResponse == Respond("none", NoBody, NoBody, NoBody, NoBody, NoBody)

Idle == [pc |-> "idle"]

\* ------------------------------------------------------- users handlers
\* UserUpdateMe / UserUpdate: email is optional; {} is "not set"
UserRequests == [email : {{}} \cup {{e} : e \in Emails}]

\* user_in.model_dump(exclude_unset=True) applied by sqlmodel_update
sqlmodel_update(row, req) ==
    IF req.email = {} THEN row
    ELSE [row EXCEPT !.email = CHOOSE e \in req.email : TRUE]

\* lines 96-98 and 191-193: the lookup that guards the write
email_conflict_AnyHolder(id, req) ==
    /\ req.email # {}
    /\ \E e \in req.email : get_user_by_email(e) # {}

email_conflict(id, req) ==
    /\ req.email # {}
    /\ \E e \in req.email :
          LET found == get_user_by_email(e)
          IN  found # {} /\ (CHOOSE x \in found : TRUE) # id

\* session.add; session.commit: the row is written unless the unique index refuses it
Commit(op, c, id, req) ==
    LET row == sqlmodel_update(users[id], req)
    IN  IF UniqueViolation(id, row)
        THEN /\ resp' = Respond(op, c, id, req, 500, NoBody)
             /\ UNCHANGED users
        ELSE /\ users' = [users EXCEPT ![id] = row]
             /\ resp' = Respond(op, c, id, req, 200, row)

update_user_me(c, req) ==
    /\ c \in DOMAIN users
    /\ IF email_conflict(c, req)
       THEN /\ resp' = Respond("update_user_me", c, c, req, 409, NoBody)
            /\ UNCHANGED users
       ELSE Commit("update_user_me", c, c, req)
    /\ UNCHANGED <<principles, revisions, pending>>

read_user_me(c) ==
    /\ c \in DOMAIN users
    /\ resp' = Respond("read_user_me", c, c, NoBody, 200, users[c])
    /\ UNCHANGED <<users, principles, revisions, pending>>

\* lines 117-122: the two checks of PATCH /users/me/password, in the code's order
password_rejected_NoSameCheck(c, cur, new) ==
    IF ~verify_password(cur, users[c].hashed_password) THEN "Incorrect password"
    ELSE NoBody

password_rejected(c, cur, new) ==
    IF ~verify_password(cur, users[c].hashed_password) THEN "Incorrect password"
    ELSE IF cur = new THEN "New password cannot be the same as the current one"
    ELSE NoBody

update_password_me(c, cur, new, salt) ==
    /\ c \in DOMAIN users
    /\ IF password_rejected(c, cur, new) # NoBody
       THEN /\ resp' = Respond("update_password_me", c, c, <<cur, new>>, 400, password_rejected(c, cur, new))
            /\ UNCHANGED users
       ELSE /\ users' = [users EXCEPT ![c].hashed_password = get_password_hash(new, salt)]
            /\ resp' = Respond("update_password_me", c, c, <<cur, new>>, 200, "Password updated successfully")
    /\ UNCHANGED <<principles, revisions, pending>>

\* the foreign key of UserCommentRevision.user_id: a deleted user's revisions go with the user
DeleteCascade(id) == {r \in revisions : r.user_id # id}

\* session.delete(user); session.commit()
session_delete(id) ==
    /\ users' = [u \in DOMAIN users \ {id} |-> users[u]]
    /\ revisions' = DeleteCascade(id)

\* line 143
delete_user_me_forbidden_Never(c) == FALSE

delete_user_me_forbidden(c) == users[c].is_superuser

delete_user_me(c) ==
    /\ c \in DOMAIN users
    /\ IF delete_user_me_forbidden(c)
       THEN /\ resp' = Respond("delete_user_me", c, c, NoBody, 403, NoBody)
            /\ UNCHANGED <<users, revisions>>
       ELSE /\ session_delete(c)
            /\ resp' = Respond("delete_user_me", c, c, NoBody, 200, "User deleted successfully")
    /\ UNCHANGED <<principles, pending>>

\* lines 159-167: session.get gives the row or None; None is returned as it is to a
\* superuser, and the framework then answers 200 with null or fails to serialise it
read_user_by_id_status_NoGuard(c, t) ==
    IF t \in DOMAIN users THEN {200} ELSE {200, 500}

read_user_by_id_status(c, t) ==
    IF t \in DOMAIN users /\ t = c THEN {200}
    ELSE IF ~users[c].is_superuser THEN {403}
    ELSE IF t \in DOMAIN users THEN {200}
    ELSE {200, 500}

read_user_by_id(c, t) ==
    /\ c \in DOMAIN users
    /\ \E st \in read_user_by_id_status(c, t) :
          resp' = Respond("read_user_by_id", c, t, NoBody, st,
                          IF st = 200 /\ t \in DOMAIN users THEN users[t]
                          ELSE IF st = 200 THEN Null ELSE NoBody)
    /\ UNCHANGED <<users, principles, revisions, pending>>

\* lines 185-199
update_user(c, t, req) ==
    /\ c \in DOMAIN users
    /\ IF ~get_current_active_superuser(c)
       THEN /\ resp' = Respond("update_user", c, t, req, 403, NoBody)
            /\ UNCHANGED users
       ELSE IF t \notin DOMAIN users
       THEN /\ resp' = Respond("update_user", c, t, req, 404, NoBody)
            /\ UNCHANGED users
       ELSE IF email_conflict(t, req)
       THEN /\ resp' = Respond("update_user", c, t, req, 409, NoBody)
            /\ UNCHANGED users
       ELSE Commit("update_user", c, t, req)
    /\ UNCHANGED <<principles, revisions, pending>>

\* line 212
delete_user_is_self(c, t) == t = c

\* lines 209-218
delete_user(c, t) ==
    /\ c \in DOMAIN users
    /\ IF ~get_current_active_superuser(c)
       THEN /\ resp' = Respond("delete_user", c, t, NoBody, 403, NoBody)
            /\ UNCHANGED <<users, revisions>>
       ELSE IF t \notin DOMAIN users
       THEN /\ resp' = Respond("delete_user", c, t, NoBody, 404, NoBody)
            /\ UNCHANGED <<users, revisions>>
       ELSE IF delete_user_is_self(c, t)
       THEN /\ resp' = Respond("delete_user", c, t, NoBody, 403, NoBody)
            /\ UNCHANGED <<users, revisions>>
       ELSE /\ session_delete(t)
            /\ resp' = Respond("delete_user", c, t, NoBody, 200, "User deleted successfully")
    /\ UNCHANGED <<principles, pending>>

\* ------------------------------------------------- aggregation and export
\* UserCommentRevision rows; the primary key is never 0, which stands for SQL NULL
NullId == 0

\* lines 54-60: count(UserCommentRevision.id) over the inner join with User
total_comments ==
    Cardinality({p \in revisions \X (DOMAIN users) :
                    /\ p[2] = p[1].user_id
                    /\ users[p[2]].is_superuser = FALSE
                    /\ p[1].is_revise_completed = TRUE})

\* lines 63-71: the left outer join, one NULL-padded row for a user nothing matches
OuterJoin ==
    LET on(u, r) == u = r.user_id /\ r.is_revise_completed = TRUE
    IN  {<<p[1], p[2].id>> : p \in {q \in (DOMAIN users) \X revisions : on(q[1], q[2])}}
        \cup {<<u, NullId>> : u \in {v \in DOMAIN users : \A r \in revisions : ~on(v, r)}}

\* .where(User.is_superuser == False).group_by(User.id)
GroupedUsers == {p[1] : p \in {q \in OuterJoin : users[q[1]].is_superuser = FALSE}}

\* func.count(UserCommentRevision.id): the non-NULL ids of the group
GroupCount_CountsNull(u) == Cardinality({p \in OuterJoin : p[1] = u})

GroupCount(u) == Cardinality({p \in OuterJoin : p[1] = u /\ p[2] # NullId})

\* the store returns the groups in an order of its own choosing
Orderings(S) ==
    {f \in [1..Cardinality(S) -> S] : \A i, j \in DOMAIN f : f[i] = f[j] => i = j}

\* .offset(skip).limit(limit)
Page(order, skip, limit) ==
    SubSeq(order, skip + 1, IF skip + limit < Len(order) THEN skip + limit ELSE Len(order))

\* lines 79-83: user.model_dump() plus revised_count
UserReviseStats(u) ==
    [id |-> u, email |-> users[u].email, is_superuser |-> users[u].is_superuser,
     revised_count |-> GroupCount(u)]

read_non_super_users(c, skip, limit) ==
    /\ c \in DOMAIN users
    /\ IF ~get_current_active_superuser(c)
       THEN resp' = Respond("read_non_super_users", c, NoBody, <<skip, limit>>, 403, NoBody)
       ELSE \E order \in Orderings(GroupedUsers) :
               LET page == Page(order, skip, limit)
               IN  resp' = Respond("read_non_super_users", c, NoBody, <<skip, limit>>, 200,
                                   [total_comments |-> total_comments,
                                    users |-> [i \in DOMAIN page |-> UserReviseStats(page[i])]])
    /\ UNCHANGED <<users, principles, revisions, pending>>

\* line 232
dataset_denied(c, t) == c # t /\ ~users[c].is_superuser

\* lines 240-245
dataset_results_AnyStatus(t) == {r \in revisions : r.user_id = t}

dataset_results(t) ==
    {r \in revisions : r.user_id = t /\ r.is_revise_completed = TRUE}

\* lines 249-252: one {comment_id, principle_id} object per record
RECURSIVE dataset(_)
dataset(rows) ==
    IF rows = {} THEN EmptyBag
    ELSE LET r == CHOOSE x \in rows : TRUE
         IN  dataset(rows \ {r})
             (+) SetToBag({[comment_id |-> r.comment_id, principle_id |-> r.principle_id]})

get_user_dataset(c, t) ==
    /\ c \in DOMAIN users
    /\ IF dataset_denied(c, t)
       THEN resp' = Respond("get_user_dataset", c, t, NoBody, 403, NoBody)
       ELSE resp' = Respond("get_user_dataset", c, t, NoBody, 200, dataset(dataset_results(t)))
    /\ UNCHANGED <<users, principles, revisions, pending>>

\* ------------------------------------------------------------ principles
PrincipleFields == {"name", "definition", "inclusion_criteria", "exclusion_criteria"}

\* the JSON body of PATCH /principles/{id}: a field is missing, null or a string
WireValues == {Unset, Null, "t2"}

WireRequests ==
    [label_name : WireValues, definition : WireValues,
     inclusion_criteria : WireValues, exclusion_criteria : WireValues]

\* lines 29-33, UpdatePrincipleRequest: every field is `str | None = None`, so a
\* missing field and a null field both validate to None
UpdatePrincipleRequest(wire) ==
    [f \in DOMAIN wire |-> IF wire[f] = Unset THEN Null ELSE wire[f]]

\* lines 94-100 and 48-54: the response schema; `or ""` for the nullable columns
PrincipleSchema(pid, row) ==
    [id |-> pid, label_name |-> row.name, definition |-> row.definition,
     inclusion_criteria |-> IF row.inclusion_criteria = Null THEN "" ELSE row.inclusion_criteria,
     exclusion_criteria |-> IF row.exclusion_criteria = Null THEN "" ELSE row.exclusion_criteria]

\* lines 81-88
apply_principle_update_DefinitionToName(row, principle_in) ==
    [name |-> IF principle_in.definition # Null THEN principle_in.definition
              ELSE IF principle_in.label_name # Null THEN principle_in.label_name
              ELSE row.name,
     definition |-> IF principle_in.definition # Null THEN principle_in.definition
                    ELSE row.definition,
     inclusion_criteria |-> IF principle_in.inclusion_criteria # Null
                            THEN principle_in.inclusion_criteria
                            ELSE row.inclusion_criteria,
     exclusion_criteria |-> IF principle_in.exclusion_criteria # Null
                            THEN principle_in.exclusion_criteria
                            ELSE row.exclusion_criteria]

apply_principle_update(row, principle_in) ==
    [name |-> IF principle_in.label_name # Null THEN principle_in.label_name
              ELSE row.name,
     definition |-> IF principle_in.definition # Null THEN principle_in.definition
                    ELSE row.definition,
     inclusion_criteria |-> IF principle_in.inclusion_criteria # Null
                            THEN principle_in.inclusion_criteria
                            ELSE row.inclusion_criteria,
     exclusion_criteria |-> IF principle_in.exclusion_criteria # Null
                            THEN principle_in.exclusion_criteria
                            ELSE row.exclusion_criteria]

\* lines 63-100: the caller is any authenticated user (current_user: CurrentUser)
update_principle(c, pid, wire) ==
    /\ c \in DOMAIN users
    /\ IF pid \notin DOMAIN principles
       THEN /\ resp' = Respond("update_principle", c, pid, wire, 404, NoBody)
            /\ UNCHANGED principles
       ELSE LET row == apply_principle_update(principles[pid], UpdatePrincipleRequest(wire))
            IN  /\ principles' = [principles EXCEPT ![pid] = row]
                /\ resp' = Respond("update_principle", c, pid, wire, 200, PrincipleSchema(pid, row))
    /\ UNCHANGED <<users, revisions, pending>>

\* lines 40-57
get_principles(c) ==
    /\ c \in DOMAIN users
    /\ resp' = Respond("get_principles", c, NoBody, NoBody, 200,
                       {PrincipleSchema(pid, principles[pid]) : pid \in DOMAIN principles})
    /\ UNCHANGED <<users, principles, revisions, pending>>

\* the response reaches the client
deliver ==
    /\ resp # NoResponse
    /\ resp' = NoResponse
    /\ UNCHANGED <<users, principles, revisions, pending>>

\* ------------------------------------------------------- specifications
InitPrinciples ==
    principles =
        [pid \in PrincipleIds |->
            IF pid = "P1"
            THEN [name |-> "t1", definition |-> "t1",
                  inclusion_criteria |-> "t1", exclusion_criteria |-> Null]
            ELSE [name |-> "t2", definition |-> "t1",
                  inclusion_criteria |-> Null, exclusion_criteria |-> "t1"]]

\* initial_users.py seeds the accounts, each under its own e-mail (an account whose
\* e-mail is taken is not created again); user 1 is the administrator's account, a
\* superuser, and user 2 is a superuser too when `seconds` allows it
InitUsers(hashes, seconds) ==
    \E second \in seconds :
        users = [u \in UserIds |->
                    UserRow(u, hashes[u], IF u = 1 THEN TRUE ELSE u = 2 /\ second)]

DefaultHashes == [u \in UserIds |-> get_password_hash("pw1", "s1")]

Init ==
    /\ InitUsers(DefaultHashes, BOOLEAN)
    /\ InitPrinciples
    /\ revisions = {[id |-> i, user_id |-> i, comment_id |-> "c1", principle_id |-> "P1",
                     is_revise_completed |-> TRUE] : i \in (1..MaxRevisions) \cap UserIds}
    /\ pending = [r \in 1..MaxRequests |-> Idle]
    /\ resp = NoResponse

\* a PATCH /principles/{id} body that carries no field
EmptyPatch == [f \in {"label_name", "definition", "inclusion_criteria", "exclusion_criteria"} |-> Unset]

\* a client sends its next request once the last response has been delivered
Ready == resp = NoResponse

Next ==
    \/ \E c \in UserIds, req \in UserRequests : Ready /\ update_user_me(c, req)
    \/ \E c \in UserIds : Ready /\ read_user_me(c)
    \/ \E c \in UserIds : Ready /\ delete_user_me(c)
    \/ \E c \in UserIds, t \in UserIdSpace : Ready /\ read_user_by_id(c, t)
    \/ \E c \in UserIds, t \in UserIdSpace, req \in UserRequests : Ready /\ update_user(c, t, req)
    \/ \E c \in UserIds, t \in UserIdSpace : Ready /\ delete_user(c, t)
    \/ \E c \in UserIds, pid \in PrincipleIdSpace : Ready /\ update_principle(c, pid, EmptyPatch)
    \/ deliver

Spec == Init /\ [][Next]_vars

\* PATCH /users/me/password on accounts with any of the passwords
InitPassword ==
    /\ \E pw \in [UserIds -> Passwords], salt \in [UserIds -> Salts] :
          InitUsers([u \in UserIds |-> get_password_hash(pw[u], salt[u])], {FALSE})
    /\ InitPrinciples
    /\ revisions = {}
    /\ pending = [r \in 1..MaxRequests |-> Idle]
    /\ resp = NoResponse

NextPassword ==
    \/ \E c \in UserIds, cur \in Passwords, new \in Passwords, salt \in Salts :
          Ready /\ update_password_me(c, cur, new, salt)
    \/ \E c \in UserIds : Ready /\ read_user_me(c)
    \/ deliver

SpecPassword == InitPassword /\ [][NextPassword]_vars

\* initial_data2.py line 76: every sample carries the principle it is reviewed against
SamplePrinciple == [c \in CommentIds |-> IF c = "c1" THEN "P1" ELSE "P2"]

\* the aggregation and export queries on any contents of the revision table
InitAggregate ==
    /\ InitUsers(DefaultHashes, BOOLEAN)
    /\ InitPrinciples
    /\ \E n \in 0..MaxRevisions :
          \E row \in [1..n -> [user_id : UserIds, comment_id : CommentIds,
                               is_revise_completed : BOOLEAN]] :
             revisions = {[id |-> i, user_id |-> row[i].user_id,
                           comment_id |-> row[i].comment_id,
                           principle_id |-> SamplePrinciple[row[i].comment_id],
                           is_revise_completed |-> row[i].is_revise_completed] : i \in 1..n}
    /\ pending = [r \in 1..MaxRequests |-> Idle]
    /\ resp = NoResponse

NextAggregate ==
    \/ \E c \in UserIds, skip \in 0..(MaxUsers - 1), limit \in 0..(MaxUsers - 1) :
          Ready /\ read_non_super_users(c, skip, limit)
    \/ \E c \in UserIds, t \in UserIdSpace : Ready /\ get_user_dataset(c, t)
    \/ \E c \in UserIds, t \in UserIdSpace : Ready /\ read_user_by_id(c, t)
    \/ deliver

SpecAggregate == InitAggregate /\ [][NextAggregate]_vars

\* the principles routes, called by superusers and by ordinary users
InitPrincipleRoutes ==
    /\ InitUsers(DefaultHashes, {FALSE})
    /\ InitPrinciples
    /\ revisions = {}
    /\ pending = [r \in 1..MaxRequests |-> Idle]
    /\ resp = NoResponse

NextPrinciples ==
    \/ \E c \in UserIds, pid \in PrincipleIdSpace, wire \in WireRequests :
          Ready /\ update_principle(c, pid, wire)
    \/ \E c \in UserIds : Ready /\ get_principles(c)
    \/ deliver

SpecPrinciples == InitPrincipleRoutes /\ [][NextPrinciples]_vars

\* ------------------------------------------- concurrent PATCH /users requests
\* Each request runs in its own session: the lookup by e-mail is one statement, the
\* commit another, and other requests' statements may come between the two.
InFlight(op, c, t, req) ==
    [pc |-> "looked_up", op |-> op, caller |-> c, target |-> t, request |-> req]

\* lines 96-101: PATCH /users/me up to the lookup
lookup_user_me(r, c, req) ==
    /\ pending[r] = Idle
    /\ c \in DOMAIN users
    /\ IF email_conflict(c, req)
       THEN /\ resp' = Respond("update_user_me", c, c, req, 409, NoBody)
            /\ UNCHANGED pending
       ELSE /\ pending' = [pending EXCEPT ![r] = InFlight("update_user_me", c, c, req)]
            /\ UNCHANGED resp
    /\ UNCHANGED <<users, principles, revisions>>

\* lines 185-196: PATCH /users/{id} up to the lookup
lookup_user(r, c, t, req) ==
    /\ pending[r] = Idle
    /\ c \in DOMAIN users
    /\ IF ~get_current_active_superuser(c)
       THEN /\ resp' = Respond("update_user", c, t, req, 403, NoBody)
            /\ UNCHANGED pending
       ELSE IF t \notin DOMAIN users
       THEN /\ resp' = Respond("update_user", c, t, req, 404, NoBody)
            /\ UNCHANGED pending
       ELSE IF email_conflict(t, req)
       THEN /\ resp' = Respond("update_user", c, t, req, 409, NoBody)
            /\ UNCHANGED pending
       ELSE /\ pending' = [pending EXCEPT ![r] = InFlight("update_user", c, t, req)]
            /\ UNCHANGED resp
    /\ UNCHANGED <<users, principles, revisions>>

\* lines 102-106 and 198: the write and its commit
commit_update(r) ==
    /\ pending[r] # Idle
    /\ Commit(pending[r].op, pending[r].caller, pending[r].target, pending[r].request)
    /\ pending' = [pending EXCEPT ![r] = Idle]
    /\ UNCHANGED <<principles, revisions>>

\* the requests that reach the lookup: those that carry an e-mail (lines 96, 191)
RaceRequests == {req \in UserRequests : req.email # {}}

\* two accounts, the superuser and an ordinary user, whose requests race for the addresses
InitRace ==
    /\ users = [u \in 1..2 |-> UserRow(u, DefaultHashes[u], u = 1)]
    /\ InitPrinciples
    /\ revisions = {}
    /\ pending = [r \in 1..MaxRequests |-> Idle]
    /\ resp = NoResponse

NextRace ==
    \/ \E r \in 1..MaxRequests, c \in DOMAIN users, req \in RaceRequests :
          Ready /\ lookup_user_me(r, c, req)
    \/ \E r \in 1..MaxRequests, c \in DOMAIN users, t \in DOMAIN users, req \in RaceRequests :
          Ready /\ lookup_user(r, c, t, req)
    \/ \E r \in 1..MaxRequests : Ready /\ commit_update(r)
    \/ deliver

SpecRace == InitRace /\ [][NextRace]_vars

\* ================================================================ claims
Store == <<users, principles, revisions>>

\* C1: a user row disappears only when a non-superuser deletes themselves through
\* DELETE /users/me or a superuser deletes a different user through DELETE /users/{id},
\* and then only the target's row goes; a superuser whose target is themselves gets 403
\* on both routes and the user table is unchanged.
C1_DeletionRule ==
    [][ /\ (DOMAIN users' # DOMAIN users) =>
              \E t \in DOMAIN users :
                 /\ DOMAIN users' = DOMAIN users \ {t}
                 /\ \A u \in DOMAIN users' : users'[u] = users[u]
                 /\ resp'.target = t
                 /\ \/ /\ resp'.op = "delete_user_me"
                       /\ resp'.caller = t
                       /\ ~users[t].is_superuser
                    \/ /\ resp'.op = "delete_user"
                       /\ resp'.caller # t
                       /\ users[resp'.caller].is_superuser
        /\ ( /\ resp'.op \in {"delete_user_me", "delete_user"}
             /\ resp'.caller = resp'.target
             /\ users[resp'.caller].is_superuser ) =>
              (resp'.status = 403 /\ users' = users)
      ]_vars

\* a superuser has deleted another user and is now refused the deletion of themselves
C1_Witness ==
    /\ resp.op \in {"delete_user_me", "delete_user"}
    /\ resp.status = 403
    /\ resp.caller = resp.target
    /\ users[resp.caller].is_superuser
    /\ DOMAIN users # UserIds

\* C5: a PATCH /users/me, or a superuser's PATCH /users/{id} of an existing user, whose
\* e-mail belongs to a different user answers 409 and leaves every user row unchanged;
\* with the user's own e-mail, a free e-mail or no e-mail it does not answer 409.
C5_EmailConflict ==
    [][ ( /\ resp'.op \in {"update_user_me", "update_user"}
          /\ resp'.target \in DOMAIN users
          /\ resp'.op = "update_user" => users[resp'.caller].is_superuser ) =>
           LET t == resp'.target
               heldByOther == \E e \in resp'.request.email :
                                 \E o \in DOMAIN users \ {t} : users[o].email = e
           IN  IF heldByOther
               THEN resp'.status = 409 /\ users' = users
               ELSE resp'.status # 409
      ]_vars

\* an update was refused for an e-mail of another user, after one with the own e-mail passed
C5_Witness ==
    /\ resp.op \in {"update_user_me", "update_user"}
    /\ resp.status = 409
    /\ \E o \in DOMAIN users \ {resp.target} : {users[o].email} = resp.request.email
    /\ \E u \in DOMAIN users : users[u].email # u

\* C6: on every by-id route (GET, PATCH, DELETE /users/{id}, PATCH /principles/{id}) a
\* request of an authorized caller for an id that no entity has answers 404 and leaves
\* the store unchanged.
C6_MissingIsNotFound ==
    [][ /\ ( /\ resp'.op \in {"read_user_by_id", "update_user", "delete_user"}
             /\ users[resp'.caller].is_superuser
             /\ resp'.target \notin DOMAIN users ) =>
              (resp'.status = 404 /\ UNCHANGED Store)
        /\ ( /\ resp'.op = "update_principle"
             /\ resp'.target \notin DOMAIN principles ) =>
              (resp'.status = 404 /\ UNCHANGED Store)
      ]_vars

\* C8: on GET /users/{id} and GET /users/{id}/get-dataset a caller who is no superuser and
\* asks for another id gets 403 and no data, whether or not the id has a user; a caller
\* asking for their own id, and any superuser, is not answered 403.
C8_SelfOrSuperuser ==
    resp.op \in {"read_user_by_id", "get_user_dataset"} =>
        IF ~users[resp.caller].is_superuser /\ resp.caller # resp.target
        THEN resp.status = 403 /\ resp.body = NoBody
        ELSE resp.status # 403

\* an ordinary user was refused the profile of an id that has no user
C8_Witness ==
    /\ resp.op = "read_user_by_id"
    /\ resp.status = 403
    /\ ~users[resp.caller].is_superuser
    /\ resp.target \notin DOMAIN users

NonSuperusers == {u \in DOMAIN users : ~users[u].is_superuser}

Completed(u) == Cardinality({r \in revisions : r.user_id = u /\ r.is_revise_completed})

RECURSIVE SumCompleted(_)
SumCompleted(S) ==
    IF S = {} THEN 0
    ELSE LET u == CHOOSE x \in S : TRUE IN Completed(u) + SumCompleted(S \ {u})

\* C2: in a 200 answer of GET /users/non-superusers every listed user is a non-superuser,
\* listed once, with revised_count = the number of that user's completed revisions (0 for
\* a user without any, who is listed all the same when the page reaches them), and
\* total_comments = the sum of these counts over all non-superusers.
C2_RevisedCounts ==
    (resp.op = "read_non_super_users" /\ resp.status = 200) =>
        LET listed == resp.body.users
            skip == resp.request[1]
            limit == resp.request[2]
        IN  /\ \A i \in DOMAIN listed :
                  /\ listed[i].id \in NonSuperusers
                  /\ listed[i].revised_count = Completed(listed[i].id)
            /\ \A i, j \in DOMAIN listed : listed[i].id = listed[j].id => i = j
            /\ resp.body.total_comments = SumCompleted(NonSuperusers)
            /\ (skip = 0 /\ limit >= Cardinality(NonSuperusers)) =>
                  {listed[i].id : i \in DOMAIN listed} = NonSuperusers

\* the report lists a user whose only revision is not completed, counted 0, beside a
\* user counted for a completed one
C2_Witness ==
    /\ resp.op = "read_non_super_users"
    /\ resp.status = 200
    /\ \E i, j \in DOMAIN resp.body.users :
          /\ resp.body.users[i].revised_count = 0
          /\ \E r \in revisions : r.user_id = resp.body.users[i].id /\ ~r.is_revise_completed
          /\ resp.body.users[j].revised_count > 0
    /\ resp.body.total_comments > 0

Pairs == [comment_id : CommentIds, principle_id : PrincipleIds]

\* C4: GET /users/{id}/get-dataset by the user themselves or by a superuser answers 200
\* with one {comment_id, principle_id} pair per completed revision of that user and
\* nothing else, the empty array when there is none, and changes no stored data.
C4_DatasetExport ==
    [][ ( /\ resp'.op = "get_user_dataset"
          /\ (resp'.caller = resp'.target \/ users[resp'.caller].is_superuser) ) =>
           LET mine == {r \in revisions : r.user_id = resp'.target /\ r.is_revise_completed}
           IN  /\ resp'.status = 200
               /\ BagToSet(resp'.body) \subseteq Pairs
               /\ \A p \in Pairs :
                     CopiesIn(p, resp'.body) =
                        Cardinality({r \in mine : /\ r.comment_id = p.comment_id
                                                  /\ r.principle_id = p.principle_id})
               /\ (mine = {}) => (resp'.body = EmptyBag)
               /\ UNCHANGED Store
      ]_vars

\* the export of a user whose only revisions are not completed is the empty array
C4_Witness ==
    /\ resp.op = "get_user_dataset"
    /\ resp.status = 200
    /\ resp.body = EmptyBag
    /\ \E r \in revisions : r.user_id = resp.target /\ ~r.is_revise_completed

\* C9: PATCH /users/me/password answers 400 and leaves the stored hash unchanged when the
\* current password does not verify against it or the new password equals the current
\* one; the stored hash changes only when neither is the case.
C9_PasswordUpdate ==
    [][ resp'.op = "update_password_me" =>
           LET c == resp'.caller
               cur == resp'.request[1]
               new == resp'.request[2]
               stored == users[c].hashed_password
               verifies == \E salt \in Salts : stored = get_password_hash(cur, salt)
           IN  /\ IF ~verifies \/ new = cur
                  THEN resp'.status = 400 /\ users' = users
                  ELSE resp'.status # 400
               /\ users'[c].hashed_password # stored => (verifies /\ new # cur)
               /\ \A u \in DOMAIN users \ {c} : users'[u] = users[u]
      ]_vars

\* a new password equal to the (correct) current one was rejected
C9_Witness ==
    /\ resp.op = "update_password_me"
    /\ resp.status = 400
    /\ resp.request[1] = resp.request[2]
    /\ verify_password(resp.request[1], users[resp.caller].hashed_password)

\* the column of Principle that a field of the request body sets
WireField ==
    [name |-> "label_name", definition |-> "definition",
     inclusion_criteria |-> "inclusion_criteria", exclusion_criteria |-> "exclusion_criteria"]

\* C3 as stated: every field present in the body of PATCH /principles/{id} takes the
\* requested value, every absent field, the id and every other principle are unchanged.
C3_PresentFieldsApplied ==
    [][ (resp'.op = "update_principle" /\ resp'.target \in DOMAIN principles) =>
           LET t == resp'.target
           IN  /\ resp'.status = 200
               /\ DOMAIN principles' = DOMAIN principles
               /\ \A q \in DOMAIN principles \ {t} : principles'[q] = principles[q]
               /\ \A col \in PrincipleFields :
                     LET v == resp'.request[WireField[col]]
                     IN  IF v # Unset
                         THEN principles'[t][col] = v
                         ELSE principles'[t][col] = principles[t][col]
      ]_vars

\* C3 amended: every field present in the body with a string value takes that value;
\* every field that is absent or null, the id and every other principle are unchanged.
C3_NonNullFieldsApplied ==
    [][ (resp'.op = "update_principle" /\ resp'.target \in DOMAIN principles) =>
           LET t == resp'.target
           IN  /\ resp'.status = 200
               /\ resp'.body.id = t
               /\ DOMAIN principles' = DOMAIN principles
               /\ \A q \in DOMAIN principles \ {t} : principles'[q] = principles[q]
               /\ \A col \in PrincipleFields :
                     LET v == resp'.request[WireField[col]]
                     IN  IF v \notin {Unset, Null}
                         THEN principles'[t][col] = v
                         ELSE principles'[t][col] = principles[t][col]
      ]_vars

\* a body with only `definition` set, beside a null field, changed the definition alone
C3_Witness ==
    /\ resp.op = "update_principle"
    /\ resp.status = 200
    /\ resp.request.definition = "t2"
    /\ resp.request.label_name = Null
    /\ resp.request.inclusion_criteria = Unset
    /\ resp.request.exclusion_criteria = Unset
    /\ principles[resp.target] =
          [name |-> "t1", definition |-> "t2",
           inclusion_criteria |-> "t1", exclusion_criteria |-> Null]

\* C7: a PATCH /principles/{id} of a caller who is no superuser is denied and leaves every
\* principle unchanged.
C7_SuperuserOnlyEdit ==
    [][ (resp'.op = "update_principle" /\ ~users[resp'.caller].is_superuser) =>
           (resp'.status = 403 /\ principles' = principles)
      ]_vars

\* C10: whatever the interleaving of the lookups and commits of concurrent PATCH
\* /users/me and PATCH /users/{id} requests, no two users hold the same e-mail.
C10_EmailsUnique ==
    \A u, v \in DOMAIN users : users[u].email = users[v].email => u = v

\* a request whose lookup found its e-mail free lost the race: its commit was refused,
\* because another request's commit gave the e-mail to another user in between
C10_Witness ==
    /\ resp.op \in {"update_user_me", "update_user"}
    /\ resp.status = 500
    /\ \E o \in DOMAIN users \ {resp.target} : {users[o].email} = resp.request.email

====
